---- MODULE Spec2Model ----
(***************************************************************************)
(* Client-side session / notes state machine of the SaaS notes app         *)
(* (frontend/pages/_app.js) together with the REST backend it talks to.    *)
(*                                                                         *)
(* React state lives in the variables token, user, notes, isNotesLoading,  *)
(* error, formState and loginForm.  Every async handler is split where the *)
(* source awaits: the part before the await issues a request that records  *)
(* the values the handler's closure captured (bearer token, notes, body),  *)
(* the part after the await is a separate action that runs when the fetch  *)
(* promise settles.  State updates made by one continuation are applied    *)
(* together (React batches them) and the [token] effect runs with them.    *)
(* The backend answers a request at the moment its fetch settles.          *)
(***************************************************************************)
EXTENDS Integers, Sequences, FiniteSets, Bags, TLC

VARIABLES token, user, notes, isNotesLoading, error, formState, loginForm,
          localStorage, inflight, serverNotes, nextId, cleared, last, clean

vars == <<token, user, notes, isNotesLoading, error, formState, loginForm,
          localStorage, inflight, serverNotes, nextId, cleared, last, clean>>

serverVars == <<serverNotes, nextId>>

(* ---------------------------- bounds ----------------------------------- *)

\* requests that may be outstanding at the same time
MaxInflight == 2
\* notes the backend creates in one run
MaxNotes == 2

(* --------------------------- JS values --------------------------------- *)

\* JS null in a string-typed slot; `Bearer ${null}` also reads "null"
Null == "null"
\* JS null in the user slot
NoUser == [role |-> Null, tenant_id |-> Null]
\* a response body without a message field
Absent == "absent"

EmptyForm == [title |-> "", content |-> ""]
EmptyLoginForm == [email |-> "", password |-> ""]
EmptyStorage == [token |-> Null, user |-> <<>>]

FallbackMessage == "Something went wrong"

\* err.message of the TypeError a rejected fetch() carries (runtime-defined)
NetworkErrorMessages == {"Failed to fetch"}

\* JSON.stringify / JSON.parse of the three objects the client serialises.
\* A JSON text is modelled as the sequence of its keys and values.
StringifyUser(u) == <<"role", u.role, "tenant_id", u.tenant_id>>
ParseUser(s) == IF s = <<>> THEN NoUser ELSE [role |-> s[2], tenant_id |-> s[4]]
StringifyLoginForm(f) == <<"email", f.email, "password", f.password>>
StringifyFormState(f) == <<"title", f.title, "content", f.content>>

\* JS truthiness of a string-typed slot
Truthy(s) == s # Null /\ s # "" /\ s # Absent

(* ------------------------- what the user types ------------------------- *)

\* what the user fills the login form with: both accounts, and a wrong password
Credentials ==
    { [email |-> "admin@acme.test", password |-> "password"],
      [email |-> "user@globex.test", password |-> "password"],
      [email |-> "admin@acme.test", password |-> "wrong"] }
\* what the user fills the note form with
NoteInputs == { [title |-> "Groceries", content |-> "Milk, eggs"] }

(* ------------------------------ backend -------------------------------- *)

Tenants == {"acme", "globex"}

Accounts ==
    { [email |-> "admin@acme.test", password |-> "password", token |-> "t1",
       user |-> [role |-> "Admin", tenant_id |-> "acme"]],
      [email |-> "user@globex.test", password |-> "password", token |-> "t2",
       user |-> [role |-> "Member", tenant_id |-> "globex"]] }

Tokens == {a.token : a \in Accounts}

AccountOf(tok) == CHOOSE a \in Accounts : a.token = tok

\* message fields of the backend's non-2xx bodies
ErrorBodies == {"Unauthorized", Absent}

(* ----------------------------- requests -------------------------------- *)

NoNote == [id |-> 0, title |-> "", content |-> "", created_at |-> 0]

\* what `await fetch(...)` settles with: a response (status ok or not, and
\* the fields of its JSON body) or a rejection carrying an error message
NoRes == [type |-> "none", ok |-> FALSE, message |-> Absent,
          token |-> Null, user |-> NoUser, notes |-> <<>>, note |-> NoNote]
ErrRes(m) == [NoRes EXCEPT !.type = "response", !.message = m]
NetRes(m) == [NoRes EXCEPT !.type = "error", !.message = m]
OkRes == [NoRes EXCEPT !.type = "response", !.ok = TRUE]
LoginBody(t, u) == [OkRes EXCEPT !.token = t, !.user = u]
NotesBody(list) == [OkRes EXCEPT !.notes = list]
NoteBody(n) == [OkRes EXCEPT !.note = n]

\* a pending fetch: what was sent (Authorization header, body, note id in
\* the path) and the notes the awaiting closure captured
Request(kind, auth, body, id, snap) ==
    [kind |-> kind, auth |-> auth, body |-> body, id |-> id, notes |-> snap]

\* the Authorization header getAuthHeaders builds from the closure's token
GetAuthHeaders(tok) == <<"Bearer", tok>>
\* the credential the backend reads from that header
BearerOf(auth) == IF Len(auth) = 2 /\ auth[1] = "Bearer" THEN auth[2] ELSE Null

\* the pending requests are a bag: nothing orders them
Pending == BagToSet(inflight)
Issue(bag, q) == bag (+) SetToBag({q})
Settle(bag, q) == bag (-) SetToBag({q})

\* history: the continuation the last step ran and how its fetch had settled
\* ("ok", "rejected" for a non-2xx response, "error" for a rejected fetch);
\* empty after any other step
NoLast == <<>>
Applied(q, o) ==
    <<q.kind, IF o.res.type = "error" THEN "error"
              ELSE IF o.res.ok THEN "ok" ELSE "rejected">>

\* history: TRUE while every request answered since the login of the current
\* session was applied got a 2xx response, that login was applied on the
\* login view with nothing else pending, and no pending request was dropped
\* by a page reload
Clean(q, o) ==
    IF ~(o.res.type = "response" /\ o.res.ok) THEN FALSE
    ELSE IF q.kind = "login" THEN ~Truthy(token) /\ Settle(inflight, q) = EmptyBag
    ELSE IF q.kind = "upgrade" THEN clean /\ Settle(inflight, q) = EmptyBag
    ELSE clean

(* ------------------------- initial state ------------------------------- *)

\* fetchNotes up to its await: loading flag, error cleared, GET /notes with
\* the bearer token of the render the effect belongs to
FetchNotesRequest(tok) == Request("fetchNotes", GetAuthHeaders(tok), <<>>, 0, <<>>)

\* the effect without its `if (token)` test
TokenEffectRunsOnAnyChange(old, new) == new # old

\* the [token] effect: runs after a render in which token changed
TokenEffectRuns(old, new) == new # old /\ Truthy(new)

\* the restore effect: both entries are needed to hydrate the session
Restorable(ls) == Truthy(ls.token) /\ ParseUser(ls.user) # NoUser

\* history: "logout" once handleLogout has run, "restored" once the client
\* has been restarted after that; "no" again when a login response is applied
Restored(h) == IF h = "no" THEN "no" ELSE "restored"

\* state of a freshly mounted App once its mount effects have run
Mounted(ls) ==
    /\ token' = IF Restorable(ls) THEN ls.token ELSE Null
    /\ user' = IF Restorable(ls) THEN ParseUser(ls.user) ELSE NoUser
    /\ notes' = <<>>
    /\ isNotesLoading' = (Restorable(ls) /\ TokenEffectRuns(Null, ls.token))
    /\ error' = ""
    /\ formState' = EmptyForm
    /\ loginForm' = EmptyLoginForm
    /\ inflight' = IF Restorable(ls) /\ TokenEffectRuns(Null, ls.token)
                      THEN SetToBag({FetchNotesRequest(ls.token)})
                      ELSE EmptyBag

Init ==
    /\ token = Null
    /\ user = NoUser
    /\ notes = <<>>
    /\ isNotesLoading = FALSE
    /\ error = ""
    /\ formState = EmptyForm
    /\ loginForm = EmptyLoginForm
    /\ localStorage = EmptyStorage
    /\ inflight = EmptyBag
    /\ serverNotes = [t \in Tenants |-> <<>>]
    /\ nextId = 1
    /\ cleared = "no"
    /\ last = NoLast
    /\ clean = FALSE

(* --------------------------- login view -------------------------------- *)

\* the user fills in the login form: the onChange handlers of both inputs
\* (a form with an empty required input cannot be submitted)
FillLoginForm(c) ==
    /\ last' = NoLast
    /\ clean' = clean
    /\ ~Truthy(token)
    /\ loginForm' = [[loginForm EXCEPT !.email = c.email] EXCEPT !.password = c.password]
    /\ UNCHANGED <<token, user, notes, isNotesLoading, error, formState,
                   localStorage, inflight, serverVars, cleared>>

\* handleLogin up to its await
SubmitLogin ==
    /\ last' = NoLast
    /\ clean' = clean
    /\ ~Truthy(token)
    /\ loginForm.email # "" /\ loginForm.password # ""
    /\ BagCardinality(inflight) < MaxInflight
    /\ error' = ""
    /\ LET q == Request("login", <<>>, StringifyLoginForm(loginForm), 0, <<>>)
       IN  /\ inflight' = Issue(inflight, q)
    /\ UNCHANGED <<token, user, notes, isNotesLoading, formState, loginForm,
                   localStorage, serverVars, cleared>>


(* ------------------------------ backend -------------------------------- *)

\* one way the backend can answer: the response and the store it leaves
Served(res, list, id) == [res |-> res, serverNotes |-> list, nextId |-> id]

Authorized(q) == BearerOf(q.auth) \in Tokens
TenantOf(q) == AccountOf(BearerOf(q.auth)).user.tenant_id
WithoutId(list, id) == SelectSeq(list, LAMBDA n : n.id # id)

\* POST /login
ServerLogin(q) ==
    LET b == q.body
        match == {a \in Accounts : a.email = b[2] /\ a.password = b[4]}
    IN  IF match # {}
        THEN {Served(LoginBody(a.token, a.user), serverNotes, nextId) : a \in match}
        ELSE {Served(ErrRes("Unauthorized"), serverNotes, nextId)}

\* GET /notes
ServerListNotes(q) ==
    {Served(NotesBody(serverNotes[TenantOf(q)]), serverNotes, nextId)}

\* POST /notes
ServerCreateNote(q) ==
    LET b == q.body
        n == [id |-> nextId, title |-> b[2], content |-> b[4], created_at |-> nextId]
        t == TenantOf(q)
    IN  IF nextId <= MaxNotes
        THEN {Served(NoteBody(n), [serverNotes EXCEPT ![t] = <<n>> \o @], nextId + 1)}
        ELSE {}

\* DELETE /notes/{id}
ServerDeleteNote(q) ==
    LET t == TenantOf(q)
    IN  {Served(OkRes, [serverNotes EXCEPT ![t] = WithoutId(@, q.id)], nextId)}

\* POST /tenants/{slug}/upgrade
ServerUpgrade(q) == {Served(OkRes, serverNotes, nextId)}

\* any non-2xx answer (bad or missing credential, backend failure)
ServerReject(q) == {Served(ErrRes(m), serverNotes, nextId) : m \in ErrorBodies}

\* every answer the backend can give to q
Backend(q) ==
    ServerReject(q) \cup
    (IF q.kind = "login" THEN ServerLogin(q)
     ELSE IF ~Authorized(q) THEN {}
     ELSE IF q.kind = "fetchNotes" THEN ServerListNotes(q)
     ELSE IF q.kind = "createNote" THEN ServerCreateNote(q)
     ELSE IF q.kind = "deleteNote" THEN ServerDeleteNote(q)
     ELSE ServerUpgrade(q))

(* ------------------------ settling a fetch ----------------------------- *)

\* what `await fetch(...)` can settle with: the backend's response, or a
\* rejection because the request never arrived or its response was lost
Settlements(q) ==
    Backend(q)
        \cup {Served(NetRes(m), serverNotes, nextId) : m \in NetworkErrorMessages}
        \cup {Served(NetRes(m), o.serverNotes, o.nextId) :
                 m \in NetworkErrorMessages, o \in Backend(q)}

\* validateResponse returns the body
ValidateResponseOk(res) == res.type = "response" /\ res.ok

\* message of the Error the try block throws: the one validateResponse builds
\* from a non-2xx body, or the one fetch rejected with
ThrownMessage(res) ==
    IF res.type = "error" THEN res.message
    ELSE IF Truthy(res.message) THEN res.message ELSE FallbackMessage

\* a render in which token went from old to new, followed by the [token]
\* effect; rest is the pending requests, err and loading the values the
\* handler left in error and isNotesLoading
Rendered(old, new, rest, err, loading) ==
    IF TokenEffectRuns(old, new)
    THEN /\ isNotesLoading' = TRUE
         /\ error' = ""
         /\ inflight' = Issue(rest, FetchNotesRequest(new))
    ELSE /\ isNotesLoading' = loading
         /\ error' = err
         /\ inflight' = rest

(* ------------------------------ session -------------------------------- *)

\* handleLogin without its second setItem
LoginStoredTokenOnly(data) == [token |-> data.token, user |-> <<>>]

\* what handleLogin writes to durable storage
LoginStored(data) == [token |-> data.token, user |-> StringifyUser(data.user)]

\* handleLogin whose catch block also drops the session
LoginSettlesDropsSession(q, o) ==
    /\ serverNotes' = o.serverNotes
    /\ nextId' = o.nextId
    /\ last' = Applied(q, o)
    /\ clean' = Clean(q, o)
    /\ IF ValidateResponseOk(o.res)
       THEN /\ token' = o.res.token
            /\ user' = o.res.user
            /\ localStorage' = LoginStored(o.res)
            /\ Rendered(token, o.res.token, Settle(inflight, q),
                        error, isNotesLoading)
            /\ cleared' = "no"
            /\ UNCHANGED <<notes, formState, loginForm>>
       ELSE /\ token' = Null
            /\ user' = NoUser
            /\ localStorage' = EmptyStorage
            /\ Rendered(token, Null, Settle(inflight, q),
                        ThrownMessage(o.res), isNotesLoading)
            /\ UNCHANGED <<notes, formState, loginForm, cleared>>

\* handleLogin after its await
LoginSettles(q, o) ==
    /\ serverNotes' = o.serverNotes
    /\ nextId' = o.nextId
    /\ last' = Applied(q, o)
    /\ clean' = Clean(q, o)
    /\ IF ValidateResponseOk(o.res)
       THEN /\ token' = o.res.token
            /\ user' = o.res.user
            /\ localStorage' = LoginStored(o.res)
            /\ Rendered(token, o.res.token, Settle(inflight, q),
                        error, isNotesLoading)
            /\ cleared' = "no"
            /\ UNCHANGED <<notes, formState, loginForm>>
       ELSE /\ error' = ThrownMessage(o.res)
            /\ inflight' = Settle(inflight, q)
            /\ UNCHANGED <<token, user, notes, isNotesLoading, formState,
                           loginForm, localStorage, cleared>>

LoginResolve ==
    \E q \in Pending :
        /\ q.kind = "login"
        /\ \E o \in Settlements(q) : LoginSettles(q, o)

\* handleLogout without its removeItem calls
LogoutStoredKeepsEntries(ls) == ls

\* the entries handleLogout leaves in durable storage
LogoutStored(ls) == EmptyStorage

\* handleLogout without setUser(null)
handleLogoutKeepsUser ==
    /\ last' = NoLast
    /\ clean' = FALSE
    /\ Truthy(token)
    /\ token' = Null
    /\ user' = user
    /\ notes' = <<>>
    /\ localStorage' = LogoutStored(localStorage)
    /\ Rendered(token, Null, inflight, "", isNotesLoading)
    /\ cleared' = "logout"
    /\ UNCHANGED <<formState, loginForm, serverVars>>

handleLogout ==
    /\ last' = NoLast
    /\ clean' = FALSE
    /\ Truthy(token)
    /\ token' = Null
    /\ user' = NoUser
    /\ notes' = <<>>
    /\ localStorage' = LogoutStored(localStorage)
    /\ Rendered(token, Null, inflight, "", isNotesLoading)
    /\ cleared' = "logout"
    /\ UNCHANGED <<formState, loginForm, serverVars>>

\* the client is restarted: pending continuations die with the old page
Reload ==
    /\ last' = NoLast
    /\ clean' = (clean /\ inflight = EmptyBag)
    /\ Mounted(localStorage)
    /\ cleared' = Restored(cleared)
    /\ UNCHANGED <<localStorage, serverVars>>

(* ----------------------------- dashboard ------------------------------- *)

\* the user fills in the note form: the onChange handlers of both inputs
FillNoteForm(n) ==
    /\ last' = NoLast
    /\ clean' = clean
    /\ Truthy(token)
    /\ formState' = [[formState EXCEPT !.title = n.title] EXCEPT !.content = n.content]
    /\ UNCHANGED <<token, user, notes, isNotesLoading, error, loginForm,
                   localStorage, inflight, serverVars, cleared>>

\* handleCreateNote up to its await; the closure keeps this render's notes
SubmitCreateNote ==
    /\ last' = NoLast
    /\ clean' = clean
    /\ Truthy(token)
    /\ formState.title # "" /\ formState.content # ""
    /\ BagCardinality(inflight) < MaxInflight
    /\ error' = ""
    /\ LET q == Request("createNote", GetAuthHeaders(token),
                        StringifyFormState(formState), 0, notes)
       IN  /\ inflight' = Issue(inflight, q)
    /\ UNCHANGED <<token, user, notes, isNotesLoading, formState, loginForm,
                   localStorage, serverVars, cleared>>

\* handleDeleteNote(note.id) up to its await, from the k-th note's button
ClickDelete ==
    /\ last' = NoLast
    /\ clean' = clean
    /\ Truthy(token)
    /\ BagCardinality(inflight) < MaxInflight
    /\ error' = ""
    /\ \E k \in 1..Len(notes) :
          LET q == Request("deleteNote", GetAuthHeaders(token), <<>>,
                           notes[k].id, notes)
          IN  inflight' = Issue(inflight, q)
    /\ UNCHANGED <<token, user, notes, isNotesLoading, formState, loginForm,
                   localStorage, serverVars, cleared>>

\* the button rendered without the role test
UpgradeControlForAll(u) == u.role # Null

\* the Upgrade to Pro button is rendered for this user
UpgradeControl(u) == u.role = "Admin"

\* handleUpgrade(user.tenant_id) up to its await
ClickUpgrade ==
    /\ last' = NoLast
    /\ clean' = clean
    /\ Truthy(token)
    /\ UpgradeControl(user)
    /\ BagCardinality(inflight) < MaxInflight
    /\ error' = ""
    /\ LET q == Request("upgrade", GetAuthHeaders(token),
                        <<user.tenant_id>>, 0, <<>>)
       IN  /\ inflight' = Issue(inflight, q)
    /\ UNCHANGED <<token, user, notes, isNotesLoading, formState, loginForm,
                   localStorage, serverVars, cleared>>

(* ------------------------- notes continuations ------------------------- *)

\* fetchNotes whose catch block also empties the list
FetchNotesSettlesEmptiesList(q, o) ==
    /\ serverNotes' = o.serverNotes
    /\ nextId' = o.nextId
    /\ last' = Applied(q, o)
    /\ clean' = Clean(q, o)
    /\ IF ValidateResponseOk(o.res)
       THEN /\ notes' = o.res.notes
            /\ error' = error
       ELSE /\ notes' = <<>>
            /\ error' = ThrownMessage(o.res)
    /\ isNotesLoading' = FALSE
    /\ inflight' = Settle(inflight, q)
    /\ UNCHANGED <<token, user, formState, loginForm, localStorage, cleared>>

\* fetchNotes that ignores the response of a request of another session
FetchNotesSettlesDropsStale(q, o) ==
    /\ serverNotes' = o.serverNotes
    /\ nextId' = o.nextId
    /\ last' = Applied(q, o)
    /\ clean' = Clean(q, o)
    /\ IF ValidateResponseOk(o.res)
       THEN /\ notes' = IF BearerOf(q.auth) = token THEN o.res.notes ELSE notes
            /\ error' = error
       ELSE /\ notes' = notes
            /\ error' = ThrownMessage(o.res)
    /\ isNotesLoading' = FALSE
    /\ inflight' = Settle(inflight, q)
    /\ UNCHANGED <<token, user, formState, loginForm, localStorage, cleared>>

\* fetchNotes that clears the loading flag in its try block, not in finally
FetchNotesSettlesNoFinally(q, o) ==
    /\ serverNotes' = o.serverNotes
    /\ nextId' = o.nextId
    /\ last' = Applied(q, o)
    /\ clean' = Clean(q, o)
    /\ IF ValidateResponseOk(o.res)
       THEN /\ notes' = o.res.notes
            /\ error' = error
            /\ isNotesLoading' = FALSE
       ELSE /\ notes' = notes
            /\ error' = ThrownMessage(o.res)
            /\ isNotesLoading' = isNotesLoading
    /\ inflight' = Settle(inflight, q)
    /\ UNCHANGED <<token, user, formState, loginForm, localStorage, cleared>>

\* fetchNotes after its await
FetchNotesSettles(q, o) ==
    /\ serverNotes' = o.serverNotes
    /\ nextId' = o.nextId
    /\ last' = Applied(q, o)
    /\ clean' = Clean(q, o)
    /\ IF ValidateResponseOk(o.res)
       THEN /\ notes' = o.res.notes
            /\ error' = error
       ELSE /\ notes' = notes
            /\ error' = ThrownMessage(o.res)
    /\ isNotesLoading' = FALSE
    /\ inflight' = Settle(inflight, q)
    /\ UNCHANGED <<token, user, formState, loginForm, localStorage, cleared>>

FetchNotesResolve ==
    \E q \in Pending :
        /\ q.kind = "fetchNotes"
        /\ \E o \in Settlements(q) : FetchNotesSettles(q, o)

\* [...notes, data]: the new note at the end
CreatedListAppends(data, snap) == snap \o <<data>>

\* the list handleCreateNote sets: [data, ...notes] with the closure's notes
CreatedList(data, snap) == <<data>> \o snap

\* handleCreateNote whose catch block refetches the list
CreateNoteSettlesRefetches(q, o) ==
    /\ serverNotes' = o.serverNotes
    /\ nextId' = o.nextId
    /\ last' = Applied(q, o)
    /\ clean' = Clean(q, o)
    /\ IF ValidateResponseOk(o.res)
       THEN /\ notes' = CreatedList(o.res.note, q.notes)
            /\ formState' = EmptyForm
            /\ error' = error
            /\ inflight' = Settle(inflight, q)
            /\ UNCHANGED isNotesLoading
       ELSE /\ error' = ThrownMessage(o.res)
            /\ inflight' = Issue(Settle(inflight, q), FetchNotesRequest(token))
            /\ isNotesLoading' = TRUE
            /\ UNCHANGED <<notes, formState>>
    /\ UNCHANGED <<token, user, loginForm, localStorage, cleared>>

\* handleCreateNote after its await
CreateNoteSettles(q, o) ==
    /\ serverNotes' = o.serverNotes
    /\ nextId' = o.nextId
    /\ last' = Applied(q, o)
    /\ clean' = Clean(q, o)
    /\ IF ValidateResponseOk(o.res)
       THEN /\ notes' = CreatedList(o.res.note, q.notes)
            /\ formState' = EmptyForm
            /\ error' = error
       ELSE /\ error' = ThrownMessage(o.res)
            /\ UNCHANGED <<notes, formState>>
    /\ inflight' = Settle(inflight, q)
    /\ UNCHANGED <<token, user, isNotesLoading, loginForm, localStorage,
                   cleared>>

CreateNoteResolve ==
    \E q \in Pending :
        /\ q.kind = "createNote"
        /\ \E o \in Settlements(q) : CreateNoteSettles(q, o)

\* handleDeleteNote that validates the response before filtering
DeleteNoteSettlesValidates(q, o) ==
    /\ serverNotes' = o.serverNotes
    /\ nextId' = o.nextId
    /\ last' = Applied(q, o)
    /\ clean' = Clean(q, o)
    /\ IF ValidateResponseOk(o.res)
       THEN /\ notes' = WithoutId(q.notes, q.id)
            /\ error' = error
       ELSE /\ notes' = notes
            /\ error' = ThrownMessage(o.res)
    /\ inflight' = Settle(inflight, q)
    /\ UNCHANGED <<token, user, isNotesLoading, formState, loginForm,
                   localStorage, cleared>>

\* handleDeleteNote after its await: the response is not validated
DeleteNoteSettles(q, o) ==
    /\ serverNotes' = o.serverNotes
    /\ nextId' = o.nextId
    /\ last' = Applied(q, o)
    /\ clean' = Clean(q, o)
    /\ IF o.res.type = "response"
       THEN /\ notes' = WithoutId(q.notes, q.id)
            /\ error' = error
       ELSE /\ notes' = notes
            /\ error' = ThrownMessage(o.res)
    /\ inflight' = Settle(inflight, q)
    /\ UNCHANGED <<token, user, isNotesLoading, formState, loginForm,
                   localStorage, cleared>>

DeleteNoteResolve ==
    \E q \in Pending :
        /\ q.kind = "deleteNote"
        /\ \E o \in Settlements(q) : DeleteNoteSettles(q, o)

\* handleUpgrade that stays on the page instead of reloading
UpgradeSettlesInPlace(q, o) ==
    /\ serverNotes' = o.serverNotes
    /\ nextId' = o.nextId
    /\ last' = Applied(q, o)
    /\ clean' = Clean(q, o)
    /\ error' = IF o.res.type = "response" THEN error ELSE ThrownMessage(o.res)
    /\ inflight' = Settle(inflight, q)
    /\ UNCHANGED <<token, user, notes, isNotesLoading, formState,
                   loginForm, localStorage, cleared>>

\* handleUpgrade after its await: any response reloads the page
UpgradeSettles(q, o) ==
    /\ serverNotes' = o.serverNotes
    /\ nextId' = o.nextId
    /\ last' = Applied(q, o)
    /\ clean' = Clean(q, o)
    /\ IF o.res.type = "response"
       THEN /\ Mounted(localStorage)
            /\ cleared' = Restored(cleared)
            /\ UNCHANGED localStorage
       ELSE /\ error' = ThrownMessage(o.res)
            /\ inflight' = Settle(inflight, q)
            /\ UNCHANGED <<token, user, notes, isNotesLoading, formState,
                           loginForm, localStorage, cleared>>

UpgradeResolve ==
    \E q \in Pending :
        /\ q.kind = "upgrade"
        /\ \E o \in Settlements(q) : UpgradeSettles(q, o)

(* --------------------------- specification ----------------------------- *)

Next ==
    \/ \E c \in Credentials : FillLoginForm(c)
    \/ SubmitLogin
    \/ handleLogout
    \/ Reload
    \/ \E n \in NoteInputs : FillNoteForm(n)
    \/ SubmitCreateNote
    \/ ClickDelete
    \/ ClickUpgrade
    \/ LoginResolve
    \/ FetchNotesResolve
    \/ CreateNoteResolve
    \/ DeleteNoteResolve
    \/ UpgradeResolve

Spec == Init /\ [][Next]_vars

(* ------------------------------ claims --------------------------------- *)

\* the request q is issued by this step
Issued(q) == CopiesIn(q, inflight') > CopiesIn(q, inflight)
\* the pending request q is no longer pending after this step: its fetch
\* settled, or the client was restarted
Removed(q) == CopiesIn(q, inflight') < CopiesIn(q, inflight)

\* the message a non-2xx body provides, or the generic fallback
ServerMessageOrFallback(res) ==
    IF res.type = "response" /\ Truthy(res.message) THEN res.message
    ELSE FallbackMessage

\* C1: in every reachable state the in-memory token and user are both
\* present or both absent; with a token (dashboard view) the user is non-null
C1_TokenAndUserTogether == Truthy(token) <=> user # NoUser

\* a session exists while a login response of another submission is still due
C1_Witness ==
    /\ Truthy(token) /\ user # NoUser
    /\ \E q \in Pending : q.kind = "login"

\* C2: when the response {token, user} of an accepted login is applied, the
\* in-memory token and user are the response's, and durable storage holds the
\* same token under 'token' and the same user (JSON) under 'user'
C2_LoginMatchesResponse ==
    [][\A q \in {p \in Pending : p.kind = "login" /\ Removed(p)} :
       \A o \in Settlements(q) :
          (LoginSettles(q, o) /\ o.res.type = "response" /\ o.res.ok)
          => /\ token' = o.res.token
             /\ user' = o.res.user
             /\ localStorage'.token = o.res.token
             /\ localStorage'.user # <<>>
             /\ ParseUser(localStorage'.user) = o.res.user]_vars

\* the Member account's login response has been applied
C2_Witness ==
    /\ token = "t2"
    /\ user = [role |-> "Member", tenant_id |-> "globex"]
    /\ localStorage.token = "t2"
    /\ ParseUser(localStorage.user) = user

\* C3 as amended: when a login fails, error becomes the message of the non-2xx
\* body (or the generic fallback) or, on a network failure, the message of the
\* error fetch rejected with; token, user and both storage entries keep the
\* values they had before the response was applied
C3_LoginFailureKeepsSession ==
    [][\A q \in {p \in Pending : p.kind = "login" /\ Removed(p)} :
       \A o \in Settlements(q) :
          (LoginSettles(q, o) /\ ~(o.res.type = "response" /\ o.res.ok))
          => /\ error' = IF o.res.type = "error" THEN o.res.message
                         ELSE ServerMessageOrFallback(o.res)
             /\ token' = token
             /\ user' = user
             /\ localStorage' = localStorage]_vars

\* C3 as stated: on any login failure, network failures included, error is the
\* server-provided message or the generic fallback, and the session is kept
C3_AsStated ==
    [][\A q \in {p \in Pending : p.kind = "login" /\ Removed(p)} :
       \A o \in Settlements(q) :
          (LoginSettles(q, o) /\ ~(o.res.type = "response" /\ o.res.ok))
          => /\ error' = ServerMessageOrFallback(o.res)
             /\ token' = token
             /\ user' = user
             /\ localStorage' = localStorage]_vars

\* no login has been accepted yet (so no other request was ever issued) and
\* the rejection of a wrong password has left its message
C3_Witness ==
    /\ cleared = "no" /\ localStorage = EmptyStorage /\ token = Null
    /\ loginForm.password = "wrong"
    /\ error = "Unauthorized"
    /\ inflight = EmptyBag

\* C4: every authenticated request carries, as bearer, the session token of
\* the moment it is issued, and none is issued while the token is absent
C4_BearerIsSessionToken ==
    [][\A q \in BagToSet(inflight') :
          (q.kind # "login" /\ Issued(q))
          => (Truthy(token') /\ q.auth = <<"Bearer", token'>>)]_vars

\* requests of two sessions are pending together, each with its own bearer
C4_Witness ==
    /\ token = "t2"
    /\ \E q \in Pending : q.kind = "createNote" /\ BearerOf(q.auth) = "t2"
    /\ \E q \in Pending : q.kind = "upgrade" /\ BearerOf(q.auth) = "t1"

\* C6: after logout, a restart of the client with no login response applied
\* in between leaves the session empty: no token, no user, neither entry in
\* durable storage
C6_LogoutThenRestoreIsEmpty ==
    cleared = "restored"
        => /\ token = Null
           /\ user = NoUser
           /\ localStorage.token = Null
           /\ localStorage.user = <<>>

\* the client was restarted after a logout
C6_Witness == cleared = "restored" /\ inflight = EmptyBag

\* C5: the note list is scoped to the current session: whenever the response
\* to a notes request leaves notes in the list of a session, that request was
\* issued with the token of this session (no response to a request of an
\* earlier session populates the list of the new one)
C5_NotesScopedToSession ==
    [][\A q \in {p \in Pending : p.kind \in {"fetchNotes", "createNote", "deleteNote"}
                                    /\ Removed(p)} :
       \A o \in Settlements(q) :
          ( /\ \/ FetchNotesSettles(q, o)
               \/ CreateNoteSettles(q, o)
               \/ DeleteNoteSettles(q, o)
            /\ notes' # notes /\ notes' # <<>>
            /\ Truthy(token') )
          => BearerOf(q.auth) = token']_vars

\* C7: handleCreateNote submits the form buffer's title and content, and when
\* the request succeeds the returned note is the first element of the list,
\* with the submitted title and content, and the note form buffer is empty
C7_CreatedNoteFirst ==
    [][/\ \A q \in BagToSet(inflight') :
             (q.kind = "createNote" /\ Issued(q))
             => q.body = <<"title", formState.title, "content", formState.content>>
       /\ \A q \in {p \in Pending : p.kind = "createNote" /\ Removed(p)} :
          \A o \in Settlements(q) :
             (CreateNoteSettles(q, o) /\ o.res.type = "response" /\ o.res.ok)
             => /\ notes' # <<>>
                /\ notes'[1] = o.res.note
                /\ notes'[1].title = q.body[2]
                /\ notes'[1].content = q.body[4]
                /\ formState' = EmptyForm]_vars

\* the second note was created on top of the first and the form is empty again
C7_Witness ==
    /\ Len(notes) = 2 /\ notes[1].id = 2 /\ notes[2].id = 1
    /\ notes[1].title = "Groceries" /\ notes[1].content = "Milk, eggs"
    /\ formState = EmptyForm
    /\ inflight = EmptyBag

\* C8: when a createNote succeeds, the new list is the returned note prepended
\* to the list as it stood immediately before the response was applied
C8_PrependsToCurrentList ==
    [][\A q \in {p \in Pending : p.kind = "createNote" /\ Removed(p)} :
       \A o \in Settlements(q) :
          (CreateNoteSettles(q, o) /\ o.res.type = "response" /\ o.res.ok)
          => notes' = <<o.res.note>> \o notes]_vars

\* C9 as amended: when a fetchNotes fails, the list is the one from before,
\* the loading flag is false, and error is the message of the non-2xx body (or
\* the generic fallback) or, on a network failure, the message of the error
\* fetch rejected with
C9_FetchFailureKeepsList ==
    [][\A q \in {p \in Pending : p.kind = "fetchNotes" /\ Removed(p)} :
       \A o \in Settlements(q) :
          (FetchNotesSettles(q, o) /\ ~(o.res.type = "response" /\ o.res.ok))
          => /\ notes' = notes
             /\ error' = IF o.res.type = "error" THEN o.res.message
                         ELSE ServerMessageOrFallback(o.res)
             /\ isNotesLoading' = FALSE]_vars

\* C9 as stated: on any fetchNotes failure, network failures included, error
\* is the server-provided message or the generic fallback
C9_AsStated ==
    [][\A q \in {p \in Pending : p.kind = "fetchNotes" /\ Removed(p)} :
       \A o \in Settlements(q) :
          (FetchNotesSettles(q, o) /\ ~(o.res.type = "response" /\ o.res.ok))
          => /\ notes' = notes
             /\ error' = ServerMessageOrFallback(o.res)
             /\ isNotesLoading' = FALSE]_vars

\* a list is displayed, the fetch has been rejected and nothing is loading
C9_Witness ==
    /\ notes # <<>>
    /\ error = "Unauthorized"
    /\ ~isNotesLoading
    /\ inflight = EmptyBag

\* C10: while at least one fetchNotes request is outstanding, the loading flag
\* is true
C10_LoadingWhileFetching ==
    (\E q \in Pending : q.kind = "fetchNotes") => isNotesLoading

\* C11: for login and for every authenticated operation (fetchNotes,
\* createNote, deleteNote, upgradeTenant) a non-2xx response sets error to the
\* body's message field, or to the generic fallback when the field is absent
C11_NonOkSetsError ==
    [][\A q \in {p \in Pending : Removed(p)} :
       \A o \in Settlements(q) :
          ( /\ o.res.type = "response" /\ ~o.res.ok
            /\ \/ q.kind = "login" /\ LoginSettles(q, o)
               \/ q.kind = "fetchNotes" /\ FetchNotesSettles(q, o)
               \/ q.kind = "createNote" /\ CreateNoteSettles(q, o)
               \/ q.kind = "deleteNote" /\ DeleteNoteSettles(q, o)
               \/ q.kind = "upgrade" /\ UpgradeSettles(q, o) )
          => error' = ServerMessageOrFallback(o.res)]_vars

\* the note with identifier id is in list
HasId(list, id) == \E i \in 1..Len(list) : list[i].id = id

\* C12: when a delete request completes, whatever the status of its response,
\* no note with the deleted id is in the list afterwards; when it does not
\* complete (network failure) the list is unchanged and error is set
C12_DeleteRemovesOnCompletion ==
    [][\A q \in {p \in Pending : p.kind = "deleteNote" /\ Removed(p)} :
       \A o \in Settlements(q) :
          DeleteNoteSettles(q, o)
          => IF o.res.type = "response"
             THEN ~HasId(notes', q.id)
             ELSE notes' = notes /\ error' = o.res.message]_vars

\* the backend refused the delete and still holds the note, yet the list of
\* the session is empty and no error is shown
C12_Witness ==
    /\ last = <<"deleteNote", "rejected">>
    /\ token = "t1"
    /\ notes = <<>>
    /\ serverNotes["acme"] # <<>>
    /\ error = ""
    /\ ~isNotesLoading
    /\ inflight = EmptyBag

\* a GET /notes request is issued by this step
FetchNotesIssued ==
    \E f \in BagToSet(inflight') : f.kind = "fetchNotes" /\ Issued(f)

\* C13: when a createNote fails, the list is the one from before and error is
\* the failure message; and neither submitting a createNote nor applying its
\* response, successful or not, issues a fetchNotes request
C13_CreateFailureKeepsList ==
    [][/\ \A q \in {p \in Pending : p.kind = "createNote" /\ Removed(p)} :
          \A o \in Settlements(q) :
             CreateNoteSettles(q, o)
             => /\ ~FetchNotesIssued
                /\ ~(o.res.type = "response" /\ o.res.ok)
                   => /\ notes' = notes
                      /\ error' = IF o.res.type = "error" THEN o.res.message
                                  ELSE ServerMessageOrFallback(o.res)
       /\ (\E q \in BagToSet(inflight') : q.kind = "createNote" /\ Issued(q))
          => ~FetchNotesIssued]_vars

\* a list is displayed, a createNote was refused, and the form still holds
\* what was submitted
C13_Witness ==
    /\ last = <<"createNote", "rejected">>
    /\ notes # <<>>
    /\ notes = serverNotes["acme"]
    /\ error = "Unauthorized"
    /\ formState # EmptyForm
    /\ inflight = EmptyBag

\* C14: an upgradeTenant request is issued only from a session whose user has
\* role Admin (the upgrade control is rendered for no other role)
C14_UpgradeOnlyForAdmin ==
    [][\A q \in BagToSet(inflight') :
          (q.kind = "upgrade" /\ Issued(q))
          => /\ user.role = "Admin"
             /\ q.auth = <<"Bearer", token>>
             /\ AccountOf(token).user.role = "Admin"]_vars

\* an Admin's upgrade request is pending; a Member session with a dashboard
\* is covered by C2_Witness
C14_Witness ==
    /\ user.role = "Admin"
    /\ \E q \in Pending : q.kind = "upgrade" /\ q.body = <<user.tenant_id>>

\* C15 as amended: a successful upgrade response reloads the page and patches
\* nothing in place: token, user and durable storage are what they were, the
\* token and user are the pair durable storage holds, the list is empty, every
\* other pending continuation is gone, and a new fetchNotes is issued exactly
\* when durable storage still holds a session (after a logout during the
\* upgrade the client restarts on the login view and issues nothing)
C15_UpgradeReloads ==
    [][\A q \in {p \in Pending : p.kind = "upgrade" /\ Removed(p)} :
       \A o \in Settlements(q) :
          (UpgradeSettles(q, o) /\ o.res.type = "response" /\ o.res.ok)
          => /\ token' = token /\ user' = user
             /\ localStorage' = localStorage
             /\ token' = localStorage.token
             /\ user' = ParseUser(localStorage.user)
             /\ notes' = <<>>
             /\ IF Truthy(localStorage.token)
                THEN /\ inflight' = SetToBag({FetchNotesRequest(localStorage.token)})
                     /\ isNotesLoading'
                ELSE /\ inflight' = EmptyBag
                     /\ ~isNotesLoading']_vars

\* C15 as stated: after a successful upgrade response token and user are
\* unmodified and equal the stored pair, the list is empty and a new
\* fetchNotes is issued
C15_AsStated ==
    [][\A q \in {p \in Pending : p.kind = "upgrade" /\ Removed(p)} :
       \A o \in Settlements(q) :
          (UpgradeSettles(q, o) /\ o.res.type = "response" /\ o.res.ok)
          => /\ token' = token /\ user' = user
             /\ token' = localStorage.token
             /\ user' = ParseUser(localStorage.user)
             /\ notes' = <<>>
             /\ \E f \in BagToSet(inflight') : f.kind = "fetchNotes"]_vars

\* the page has just been reloaded by a successful upgrade: the session is
\* the stored one, the list the backend holds is not displayed yet and the
\* only pending request is the new fetchNotes
C15_Witness ==
    /\ last = <<"upgrade", "ok">>
    /\ token = "t1" /\ localStorage.token = "t1"
    /\ user = ParseUser(localStorage.user)
    /\ serverNotes["acme"] # <<>>
    /\ notes = <<>>
    /\ inflight = SetToBag({FetchNotesRequest("t1")})

\* C16: no pending request is cancelled when a fetchNotes response is applied,
\* and the last response to resolve wins: after a successful fetchNotes
\* response the list is exactly that response, whatever request was issued
\* first and whatever an overlapping fetchNotes had put in the list
C16_LastFetchWins ==
    [][\A q \in {p \in Pending : p.kind = "fetchNotes" /\ Removed(p)} :
       \A o \in Settlements(q) :
          (FetchNotesSettles(q, o) /\ o.res.type = "response" /\ o.res.ok)
          => /\ notes' = o.res.notes
             /\ inflight' (+) SetToBag({q}) = inflight]_vars

\* two fetchNotes requests overlapped (the second login was applied while the
\* first session's fetchNotes was pending); the one issued last resolved
\* first, and the list is the response of the one that resolved last
C16_Witness ==
    /\ last = <<"fetchNotes", "ok">>
    /\ token = "t2"
    /\ serverNotes["globex"] = <<>>
    /\ serverNotes["acme"] # <<>>
    /\ notes = serverNotes["acme"]
    /\ error = ""
    /\ inflight = EmptyBag

\* C17: after a successful login the login form buffer is empty, and after a
\* successful createNote the note form buffer is empty
C17_FormsResetAfterSuccess ==
    [][/\ \A q \in {p \in Pending : p.kind = "login" /\ Removed(p)} :
          \A o \in Settlements(q) :
             (LoginSettles(q, o) /\ o.res.type = "response" /\ o.res.ok)
             => loginForm' = EmptyLoginForm
       /\ \A q \in {p \in Pending : p.kind = "createNote" /\ Removed(p)} :
          \A o \in Settlements(q) :
             (CreateNoteSettles(q, o) /\ o.res.type = "response" /\ o.res.ok)
             => formState' = EmptyForm]_vars

\* C18: whenever the in-memory token is absent the note list is empty
C18_NoSessionNoNotes == ~Truthy(token) => notes = <<>>

\* C20: in every reachable state in which no fetchNotes request is
\* outstanding the loading flag is false
C20_IdleMeansNotLoading ==
    isNotesLoading => \E q \in Pending : q.kind = "fetchNotes"

\* a fetchNotes has just failed in a session that displays a list; no
\* fetchNotes is outstanding any more and the flag is false
C20_Witness ==
    /\ last = <<"fetchNotes", "error">>
    /\ Truthy(token)
    /\ notes # <<>>
    /\ error = "Failed to fetch"
    /\ ~isNotesLoading
    /\ \A q \in Pending : q.kind # "fetchNotes"

\* the identifiers of the notes in list
IdsOf(list) == {list[i].id : i \in 1..Len(list)}

\* C19: in a session all of whose requests since login got a 2xx response,
\* when no request is outstanding the notes in the list are the notes the
\* backend holds for the session's tenant
C19_QuiescentConsistency ==
    (clean /\ Truthy(token) /\ inflight = EmptyBag)
    => /\ IdsOf(notes) = IdsOf(serverNotes[AccountOf(token).user.tenant_id])
       /\ \A i \in 1..Len(notes) :
             \E j \in 1..Len(serverNotes[AccountOf(token).user.tenant_id]) :
                notes[i] = serverNotes[AccountOf(token).user.tenant_id][j]

====
